---- MODULE Spec2Model ----
(***************************************************************************)
(* Model of backend/server.py: the /predict request handler, the image     *)
(* normalizer strip_data_url_prefix and the response extractor             *)
(* extract_json_from_response.                                             *)
(*                                                                         *)
(* Strings are sequences of one-character strings.  In upstream text the   *)
(* character "M" stands for the member list of a JSON object (the text     *)
(* between its braces); which members it denotes is carried next to the    *)
(* text as the function obj.  "5" stands for a JSON number literal that is *)
(* a whole document, "x" for a prose character.                            *)
(***************************************************************************)
EXTENDS Integers, Sequences, FiniteSets, TLC

VARIABLES
    mode,           \* which specification is running: "strip" or "predict"
    image_data,     \* argument of strip_data_url_prefix / request.image
    once,           \* strip_data_url_prefix(image_data)
    twice,          \* strip_data_url_prefix(once)
    pc,             \* position of the running function
    base64_image,   \* predict_contamination: normalized image
    upstream,       \* outcome of call_gemini_vision_api
    extraction,     \* outcome of extract_json_from_response
    response,       \* the terminal HTTP response
    calls,          \* number of upstream requests sent
    stages          \* stages entered so far, in order

vars == <<mode, image_data, once, twice, pc, base64_image, upstream,
          extraction, response, calls, stages>>

(***************************************************************************)
(* Bounds                                                                  *)
(***************************************************************************)
MaxSegs == 4
Slack == 1

(***************************************************************************)
(* Python string primitives                                                *)
(***************************************************************************)
Marker == <<"d", "a", "t", "a", ":", "i", "m", "a", "g", "e">>

StartsWith(s, p) == Len(s) >= Len(p) /\ SubSeq(s, 1, Len(p)) = p

EndsWith(s, p) == Len(s) >= Len(p) /\ SubSeq(s, Len(s) - Len(p) + 1, Len(s)) = p

\* s[n:]
DropFirst(s, n) == IF n >= Len(s) THEN <<>> ELSE SubSeq(s, n + 1, Len(s))

\* s[:n]
Take(s, n) == IF n >= Len(s) THEN s ELSE SubSeq(s, 1, n)

\* str.find: 0-based index of the first occurrence of c, -1 when absent
Find(s, c) ==
    IF \E i \in 1..Len(s) : s[i] = c
    THEN (CHOOSE i \in 1..Len(s) : s[i] = c /\ \A j \in 1..(i - 1) : s[j] # c) - 1
    ELSE -1

IsSpace(c) == c \in {" ", "\n"}

RECURSIVE LStrip(_)
LStrip(s) == IF s # <<>> /\ IsSpace(Head(s)) THEN LStrip(Tail(s)) ELSE s

RECURSIVE RStrip(_)
RStrip(s) == IF s # <<>> /\ IsSpace(s[Len(s)]) THEN RStrip(SubSeq(s, 1, Len(s) - 1)) ELSE s

\* str.strip()
Strip(s) == RStrip(LStrip(s))

(***************************************************************************)
(* strip_data_url_prefix                                                   *)
(***************************************************************************)
\* variant: strips up to the first comma without testing for the marker
strip_no_marker_check(image_data_) ==
    LET comma_index == Find(image_data_, ",") IN
    IF comma_index # -1 THEN DropFirst(image_data_, comma_index + 1) ELSE image_data_

\* variant: slices at comma_index instead of comma_index + 1
strip_keeps_comma(image_data_) ==
    IF StartsWith(image_data_, Marker)
    THEN LET comma_index == Find(image_data_, ",") IN
         IF comma_index # -1 THEN DropFirst(image_data_, comma_index) ELSE image_data_
    ELSE image_data_

strip_data_url_prefix(image_data_) ==
    IF StartsWith(image_data_, Marker)
    THEN LET comma_index == Find(image_data_, ",") IN
         IF comma_index # -1 THEN DropFirst(image_data_, comma_index + 1) ELSE image_data_
    ELSE image_data_

(***************************************************************************)
(* JSON values as json.loads produces them.  Numbers are in tenths; cls    *)
(* tells a finite number from one beyond the range of a double ("poshuge", *)
(* "neghuge": an integer literal of more than 308 digits, which Python     *)
(* keeps as an exact int) and from the literals Infinity, -Infinity, NaN.  *)
(***************************************************************************)
Val(t, cls, v) == [t |-> t, cls |-> cls, v |-> v]

Absent == Val("absent", "", 0)

required_fields == <<"contaminated", "confidence", "reason">>

Keys == {"contaminated", "confidence", "reason", "extra"}

EmptyObj == [k \in Keys |-> Absent]

Zero == Val("float", "fin", 0)

One == Val("float", "fin", 10)

\* float(x) for x an int, a float or a bool; ok is FALSE for OverflowError
PyFloat(x) ==
    IF x.t = "bool" THEN [ok |-> TRUE, f |-> Val("float", "fin", x.v * 10)]
    ELSE IF x.t = "int" /\ x.cls \in {"poshuge", "neghuge"} THEN [ok |-> FALSE, f |-> Zero]
    ELSE [ok |-> TRUE, f |-> Val("float", x.cls, x.v)]

\* a < b on Python floats (any comparison with NaN is False)
FloatLt(a, b) ==
    IF a.cls = "nan" \/ b.cls = "nan" THEN FALSE
    ELSE IF a.cls = "neginf" THEN b.cls # "neginf"
    ELSE IF a.cls = "posinf" THEN FALSE
    ELSE IF b.cls = "neginf" THEN FALSE
    ELSE IF b.cls = "posinf" THEN TRUE
    ELSE a.v < b.v

\* min(a, b) and max(a, b): the first argument wins unless the second is
\* strictly smaller (larger)
PyMin(a, b) == IF FloatLt(b, a) THEN b ELSE a

PyMax(a, b) == IF FloatLt(a, b) THEN b ELSE a

\* max(0.0, min(1.0, f))
Clamp(f) == PyMax(Zero, PyMin(One, f))

isinstance_bool(x) == x.t = "bool"

\* isinstance(x, (int, float)): bool is a subclass of int
isinstance_number(x) == x.t \in {"int", "float", "bool"}

isinstance_str(x) == x.t = "str"

(***************************************************************************)
(* Error messages: kind names the message template, field the field it     *)
(* names, withText/excerpt the piece of cleaned text it quotes.            *)
(***************************************************************************)
Err(kind, field) == [kind |-> kind, field |-> field, withText |-> FALSE, excerpt |-> <<>>]

NoErr == Err("", "")

CLEAN_LIMIT == 200

RAW_LIMIT == 500

CouldNotParse(text) ==
    [kind |-> "CouldNotParse", field |-> "", withText |-> TRUE, excerpt |-> Take(text, CLEAN_LIMIT)]

(***************************************************************************)
(* Cleaning: strip, remove code fences, strip                              *)
(***************************************************************************)
\* the backquote character (written "^": a string cannot hold a backquote)
BQ == "^"

FenceJson == <<BQ, BQ, BQ, "j", "s", "o", "n">>

Fence == <<BQ, BQ, BQ>>

\* variant: removes one character too many after the opening fence
clean_text_off_by_one(text) ==
    LET t1 == Strip(text)
        t2 == IF StartsWith(t1, FenceJson) THEN DropFirst(t1, Len(FenceJson) + 1)
              ELSE IF StartsWith(t1, Fence) THEN DropFirst(t1, Len(Fence) + 1)
              ELSE t1
        t3 == IF EndsWith(t2, Fence) THEN SubSeq(t2, 1, Len(t2) - Len(Fence)) ELSE t2
    IN Strip(t3)

CleanText(text) ==
    LET t1 == Strip(text)
        t2 == IF StartsWith(t1, FenceJson) THEN DropFirst(t1, Len(FenceJson))
              ELSE IF StartsWith(t1, Fence) THEN DropFirst(t1, Len(Fence))
              ELSE t1
        t3 == IF EndsWith(t2, Fence) THEN SubSeq(t2, 1, Len(t2) - Len(Fence)) ELSE t2
    IN Strip(t3)

(***************************************************************************)
(* json.loads on the text alphabet.  Whitespace between tokens is skipped. *)
(* "{M}" is the object obj, "{}" the empty object, "5" a number; anything  *)
(* else is a JSONDecodeError.                                              *)
(***************************************************************************)
JsonLoads(s, obj) ==
    LET d == SelectSeq(s, LAMBDA c : ~IsSpace(c)) IN
    IF d = <<"{", "M", "}">> THEN [ok |-> TRUE, isdict |-> TRUE, val |-> obj]
    ELSE IF d = <<"{", "}">> THEN [ok |-> TRUE, isdict |-> TRUE, val |-> EmptyObj]
    ELSE IF d = <<"5">> THEN [ok |-> TRUE, isdict |-> FALSE, val |-> EmptyObj]
    ELSE [ok |-> FALSE, isdict |-> FALSE, val |-> EmptyObj]

IsBrace(c) == c \in {"{", "}"}

\* Index of the "}" that ends the match of
\*   \{[^{}]*(?:\{[^{}]*\}[^{}]*)*\}
\* that starts at the "{" at index i; 0 when no match starts there.  Neither
\* [^{}]* nor the group can cross an unpaired brace, so the match ends at
\* the first "}" that follows a run of inner pairs "{" "}".
MatchEnd(s, i) ==
    LET between(e) == {p \in (i + 1)..(e - 1) : IsBrace(s[p])}
        rank(e, p) == Cardinality({q \in between(e) : q <= p})
        ends == {e \in (i + 1)..Len(s) :
                    /\ s[e] = "}"
                    /\ Cardinality(between(e)) % 2 = 0
                    /\ \A p \in between(e) :
                          s[p] = (IF rank(e, p) % 2 = 1 THEN "{" ELSE "}")}
    IN IF ends = {} THEN 0 ELSE CHOOSE e \in ends : TRUE

\* re.search(pattern, text, re.DOTALL): the leftmost match, <<>> for None
RegexSearch(s) ==
    LET starts == {i \in 1..Len(s) : s[i] = "{" /\ MatchEnd(s, i) # 0} IN
    IF starts = {} THEN [found |-> FALSE, group |-> <<>>]
    ELSE LET i == CHOOSE i \in starts : \A j \in starts : i <= j IN
         [found |-> TRUE, group |-> SubSeq(s, i, MatchEnd(s, i))]

(***************************************************************************)
(* extract_json_from_response                                              *)
(*                                                                         *)
(* The upstream envelope is [shape, text, obj]:                            *)
(*   shape "notdict"       the response is not a dict (.get raises)        *)
(*         "nocandidates"  "candidates" missing or empty                   *)
(*         "badcandidate"  candidates[0] has no .get                       *)
(*         "noparts"       "parts" missing or empty                        *)
(*         "badpart"       parts[0] has no .get                            *)
(*         "parts"         parts[0] is a dict; text is parts[0].get("text")*)
(*   text.t "missing" | "str" | "null" | "number" | "zero" | "list"        *)
(***************************************************************************)
Fail(e) ==
    [ok |-> FALSE, result |-> EmptyObj, err |-> e, cleaned |-> <<>>,
     strict |-> "none", fallback |-> "none"]

\* lines 202-211: json.loads, then the regex fallback
ParseText(text, obj) ==
    LET first == JsonLoads(text, obj) IN
    IF first.ok THEN [ok |-> TRUE, parsed |-> first, err |-> NoErr,
                      strict |-> "ok", fallback |-> "none"]
    ELSE LET json_match == RegexSearch(text) IN
         IF json_match.found
         THEN LET second == JsonLoads(json_match.group, obj) IN
              IF second.ok THEN [ok |-> TRUE, parsed |-> second, err |-> NoErr,
                                 strict |-> "failed", fallback |-> "parsed"]
              ELSE [ok |-> FALSE, parsed |-> second, err |-> Err("JSONDecodeError", ""),
                    strict |-> "failed", fallback |-> "unparsable"]
         ELSE [ok |-> FALSE, parsed |-> first, err |-> CouldNotParse(text),
               strict |-> "failed", fallback |-> "nomatch"]

\* lines 213-232: presence, types, clamp
Validate(parsed) ==
    IF ~parsed.isdict THEN [ok |-> FALSE, result |-> EmptyObj, err |-> Err("TypeError", "")]
    ELSE
    LET result == parsed.val
        missing == {i \in DOMAIN required_fields : result[required_fields[i]] = Absent}
    IN
    IF missing # {}
    THEN [ok |-> FALSE, result |-> EmptyObj,
          err |-> Err("MissingField",
                      required_fields[CHOOSE i \in missing : \A j \in missing : i <= j])]
    ELSE IF ~isinstance_bool(result["contaminated"])
    THEN [ok |-> FALSE, result |-> EmptyObj, err |-> Err("MustBeBoolean", "contaminated")]
    ELSE IF ~isinstance_number(result["confidence"])
    THEN [ok |-> FALSE, result |-> EmptyObj, err |-> Err("MustBeNumber", "confidence")]
    ELSE IF ~isinstance_str(result["reason"])
    THEN [ok |-> FALSE, result |-> EmptyObj, err |-> Err("MustBeString", "reason")]
    ELSE LET f == PyFloat(result["confidence"]) IN
         IF ~f.ok
         THEN [ok |-> FALSE, result |-> EmptyObj, err |-> Err("OverflowError", "")]
         ELSE [ok |-> TRUE, result |-> [result EXCEPT !["confidence"] = Clamp(f.f)],
               err |-> NoErr]

\* "not text"
Falsy(text) == text.t \in {"missing", "null", "zero"} \/ (text.t = "str" /\ text.chars = <<>>)

extract_json_from_response(gemini_response) ==
    IF gemini_response.shape = "notdict" THEN Fail(Err("AttributeError", ""))
    ELSE IF gemini_response.shape = "nocandidates" THEN Fail(Err("NoCandidates", ""))
    ELSE IF gemini_response.shape = "badcandidate" THEN Fail(Err("AttributeError", ""))
    ELSE IF gemini_response.shape = "noparts" THEN Fail(Err("NoParts", ""))
    ELSE IF gemini_response.shape = "badpart" THEN Fail(Err("AttributeError", ""))
    ELSE IF Falsy(gemini_response.text) THEN Fail(Err("NoText", ""))
    ELSE IF gemini_response.text.t # "str" THEN Fail(Err("AttributeError", ""))
    ELSE
    LET text == CleanText(gemini_response.text.chars)
        p == ParseText(text, gemini_response.obj)
    IN
    IF ~p.ok
    THEN [ok |-> FALSE, result |-> EmptyObj, err |-> p.err, cleaned |-> text,
          strict |-> p.strict, fallback |-> p.fallback]
    ELSE LET v == Validate(p.parsed) IN
         [ok |-> v.ok, result |-> v.result, err |-> v.err, cleaned |-> text,
          strict |-> p.strict, fallback |-> p.fallback]

(***************************************************************************)
(* Inputs                                                                  *)
(***************************************************************************)
Segments == {Marker, <<",">>, <<"A">>, <<"d">>}

RECURSIVE Concats(_)
Concats(n) ==
    IF n = 0 THEN {<<>>}
    ELSE LET prev == Concats(n - 1) IN prev \cup {p \o g : p \in prev, g \in Segments}

\* arguments of strip_data_url_prefix: up to MaxSegs segments
Images == Concats(MaxSegs)

\* request.image values of the handler
RequestImages ==
    {<<>>, <<"A">>, Marker, Marker \o <<",">>, Marker \o <<",", "A">>,
     Marker \o <<",">> \o Marker \o <<",">>}

StrTrue == Val("str", "", 1)

StrOk == Val("str", "", 2)

Null == Val("null", "", 0)

ContaminatedValues ==
    {Absent, Val("bool", "", 1), Val("bool", "", 0), StrTrue, Val("int", "fin", 10)}

ConfidenceValues ==
    {Absent, Val("float", "fin", -5), Val("float", "fin", 5), Val("float", "fin", 17),
     Val("float", "fin", 0), Val("float", "fin", 10),
     Val("float", "nan", 0), Val("float", "posinf", 0), Val("float", "neginf", 0),
     Val("int", "fin", 10), Val("int", "fin", 20), Val("int", "poshuge", 0),
     Val("bool", "", 1), StrOk, Null}

ReasonValues == {Absent, StrOk, Null}

ExtraValues == {Absent, Val("int", "fin", 10), Val("float", "nan", 0)}

Objects ==
    {[k \in Keys |-> CASE k = "contaminated" -> a
                       [] k = "confidence" -> b
                       [] k = "reason" -> c
                       [] OTHER -> d] :
        a \in ContaminatedValues, b \in ConfidenceValues,
        c \in ReasonValues, d \in ExtraValues}

JsonText == <<"{", "M", "}">>

Newline == <<"\n">>

\* text wrapped in an opening fence, a closing fence and whitespace ws
Wrap(t, open, close, ws) == ws \o open \o ws \o t \o ws \o close \o ws

Wraps(t) ==
    {Wrap(t, open, close, ws) :
        open \in {<<>>, Fence, FenceJson}, close \in {<<>>, Fence}, ws \in {<<>>, Newline}}

\* both fences present
Fenced(t) ==
    {Wrap(t, open, Fence, ws) : open \in {Fence, FenceJson}, ws \in {<<>>, Newline}}

Prose(n) == [i \in 1..n |-> "x"]

\* upstream texts that quote the object
ObjectTexts ==
    Wraps(JsonText)
    \cup {<<"x", "{", "M", "}", "x">>, <<"{", "M", "{", "M", "}", "}">>,
          <<"{", "{", "M", "}", "}">>, <<"{", "\n", "M", "}">>}

\* upstream texts that do not
PlainTexts ==
    Wraps(<<"x", "x">>) \cup Wraps(<<"{", "x", "}">>) \cup Wraps(<<"{", "}">>)
    \cup {<<>>, <<" ">>, <<"5">>, <<"{">>, <<"}", "{">>, <<"{", "{", "{", "}", "}", "}">>,
          <<"x", "{", "x", "{", "x", "}", "x", "}", "x">>}
    \cup {Prose(n) : n \in (CLEAN_LIMIT - 1)..(CLEAN_LIMIT + Slack)}
    \cup {Prose(n) : n \in (RAW_LIMIT - 1)..(RAW_LIMIT + Slack)}
    \cup {<<"{">> \o Prose(CLEAN_LIMIT + Slack) \o <<"}">>}

Str(chars) == [t |-> "str", chars |-> chars]

NonStr(t) == [t |-> t, chars |-> <<>>]

Envelope(shape, text, obj) == [shape |-> shape, text |-> text, obj |-> obj]

Envelopes ==
    {Envelope(sh, NonStr("missing"), EmptyObj) :
        sh \in {"notdict", "nocandidates", "badcandidate", "noparts", "badpart"}}
    \cup {Envelope("parts", NonStr(t), EmptyObj) :
        t \in {"missing", "null", "number", "zero", "list"}}
    \cup {Envelope("parts", Str(c), EmptyObj) : c \in PlainTexts}
    \cup {Envelope("parts", Str(c), o) : c \in ObjectTexts, o \in Objects}

\* outcome of call_gemini_vision_api: a response, or the exception of line 146
TransportFailure == [ok |-> FALSE, env |-> Envelope("notdict", NonStr("missing"), EmptyObj)]

UpstreamOutcomes == {TransportFailure} \cup {[ok |-> TRUE, env |-> e] : e \in Envelopes}

(***************************************************************************)
(* Responses                                                               *)
(***************************************************************************)
NoResponse ==
    [status |-> 0, kind |-> "none", source |-> "", body |-> EmptyObj,
     message |-> NoErr, raw |-> Str(<<>>)]

\* HTTPException(status_code, detail=<string>)
HttpError(status, source) == [NoResponse EXCEPT !.status = status, !.kind = "detail_str",
                                                !.source = source]

\* lines 309-316: HTTPException(500, detail={error, message, raw_response})
ParseFailure(e, raw) == [NoResponse EXCEPT !.status = 500, !.kind = "detail_obj",
                                           !.source = "parse", !.message = e, !.raw = raw]

\* lines 298-307: the text the handler recovers from the envelope
RawText(gemini_response) ==
    IF gemini_response.shape # "parts" THEN Str(<<>>)
    ELSE IF gemini_response.text.t = "missing" THEN Str(<<>>)
    ELSE gemini_response.text

\* raw_text[:500]: raises TypeError unless raw_text is a str or a list
Sliceable(raw_text) == raw_text.t \in {"str", "list"}

\* JSONResponse(content=result) renders with json.dumps(..., allow_nan=False),
\* which raises ValueError on NaN, Infinity and -Infinity
Renders(content) ==
    \A k \in Keys : ~(content[k].t = "float" /\ content[k].cls \in {"nan", "posinf", "neginf"})

(***************************************************************************)
(* Specification of strip_data_url_prefix applied once and twice           *)
(***************************************************************************)
Idle ==
    /\ base64_image = <<>>
    /\ upstream = TransportFailure
    /\ extraction = Fail(NoErr)
    /\ response = NoResponse
    /\ calls = 0
    /\ stages = <<>>

InitStrip ==
    /\ mode = "strip"
    /\ image_data \in Images
    /\ once = <<>>
    /\ twice = <<>>
    /\ pc = "start"
    /\ Idle

NormalizeOnce ==
    /\ mode = "strip"
    /\ pc = "start"
    /\ once' = strip_data_url_prefix(image_data)
    /\ pc' = "once"
    /\ UNCHANGED <<mode, image_data, twice, base64_image, upstream, extraction,
                   response, calls, stages>>

NormalizeAgain ==
    /\ mode = "strip"
    /\ pc = "once"
    /\ twice' = strip_data_url_prefix(once)
    /\ pc' = "twice"
    /\ UNCHANGED <<mode, image_data, once, base64_image, upstream, extraction,
                   response, calls, stages>>

NextStrip == NormalizeOnce \/ NormalizeAgain

SpecStrip == InitStrip /\ [][NextStrip]_vars

(***************************************************************************)
(* predict_contamination, one request                                      *)
(***************************************************************************)
Init ==
    /\ mode = "predict"
    /\ image_data \in RequestImages
    /\ once = <<>>
    /\ twice = <<>>
    /\ pc = "normalize"
    /\ Idle

\* lines 275-282
Normalize ==
    /\ mode = "predict"
    /\ pc = "normalize"
    /\ base64_image' = strip_data_url_prefix(image_data)
    /\ stages' = Append(stages, "normalize")
    /\ IF base64_image' = <<>>
       THEN /\ response' = HttpError(400, "empty_image")
            /\ pc' = "done"
       ELSE /\ response' = response
            /\ pc' = "call"
    /\ UNCHANGED <<mode, image_data, once, twice, upstream, extraction, calls>>

\* variant: sends the request again after a first transport failure
call_upstream_with_retry ==
    /\ mode = "predict"
    /\ pc = "call"
    /\ \E out \in UpstreamOutcomes :
        /\ upstream' = out
        /\ IF out.ok
           THEN /\ response' = response
                /\ pc' = "extract"
           ELSE IF calls = 0
           THEN /\ response' = response
                /\ pc' = "call"
           ELSE /\ response' = HttpError(500, "gemini_call")
                /\ pc' = "done"
    /\ calls' = calls + 1
    /\ stages' = Append(stages, "call")
    /\ UNCHANGED <<mode, image_data, once, twice, base64_image, extraction>>

\* lines 284-291
CallUpstream ==
    /\ mode = "predict"
    /\ pc = "call"
    /\ \E out \in UpstreamOutcomes :
        /\ upstream' = out
        /\ IF out.ok
           THEN /\ response' = response
                /\ pc' = "extract"
           ELSE /\ response' = HttpError(500, "gemini_call")
                /\ pc' = "done"
    /\ calls' = calls + 1
    /\ stages' = Append(stages, "call")
    /\ UNCHANGED <<mode, image_data, once, twice, base64_image, extraction>>

\* lines 293-316
ExtractValidate ==
    /\ mode = "predict"
    /\ pc = "extract"
    /\ extraction' = extract_json_from_response(upstream.env)
    /\ stages' = Append(stages, "extract")
    /\ IF extraction'.ok
       THEN /\ response' = response
            /\ pc' = "respond"
       ELSE LET raw_text == RawText(upstream.env) IN
            /\ response' = IF Sliceable(raw_text)
                           THEN ParseFailure(extraction'.err,
                                             [raw_text EXCEPT !.chars = Take(@, RAW_LIMIT)])
                           ELSE HttpError(500, "unexpected")
            /\ pc' = "done"
    /\ UNCHANGED <<mode, image_data, once, twice, base64_image, upstream, calls>>

\* lines 318-329
Respond ==
    /\ mode = "predict"
    /\ pc = "respond"
    /\ stages' = Append(stages, "respond")
    /\ response' = IF Renders(extraction.result)
                   THEN [NoResponse EXCEPT !.status = 200, !.kind = "result",
                                           !.body = extraction.result]
                   ELSE HttpError(500, "unexpected")
    /\ pc' = "done"
    /\ UNCHANGED <<mode, image_data, once, twice, base64_image, upstream, extraction, calls>>

Next == Normalize \/ CallUpstream \/ ExtractValidate \/ Respond

Spec == Init /\ [][Next]_vars

(***************************************************************************)
(* Properties of strip_data_url_prefix (SpecStrip)                         *)
(***************************************************************************)

\* C8: strip_data_url_prefix(s) is the substring of s strictly after its
\* first comma when s begins with "data:image" and contains a comma, and s
\* itself otherwise; it is defined for every string.
C8_StripContract ==
    pc \in {"once", "twice"} =>
        IF StartsWith(image_data, Marker) /\ \E i \in 1..Len(image_data) : image_data[i] = ","
        THEN \E i \in 1..Len(image_data) :
                /\ image_data[i] = ","
                /\ \A j \in 1..(i - 1) : image_data[j] # ","
                /\ once = [k \in 1..(Len(image_data) - i) |-> image_data[i + k]]
        ELSE once = image_data

\* a data-URL whose payload holds a further comma has been normalized
C8_Witness ==
    /\ pc = "once"
    /\ StartsWith(image_data, Marker)
    /\ Len(once) = 2
    /\ once[2] = ","

\* C7 as stated: normalizing twice gives the same string as normalizing once,
\* for every string.
C7_Idempotent == pc = "twice" => twice = once

\* C7 amended: normalizing twice gives the same string as normalizing once
\* unless the normalized string itself begins with "data:image" and contains
\* a comma; in that case the second normalization strips again and returns a
\* strictly shorter string.
C7_IdempotentUnlessNested ==
    pc = "twice" =>
        IF StartsWith(once, Marker) /\ \E i \in 1..Len(once) : once[i] = ","
        THEN Len(twice) < Len(once)
        ELSE twice = once

\* a data-URL was stripped by the first normalization and left alone by the second
C7_Witness ==
    /\ pc = "twice"
    /\ StartsWith(image_data, Marker)
    /\ once # image_data
    /\ once # <<>>
    /\ twice = once

(***************************************************************************)
(* Properties of extract_json_from_response and predict_contamination      *)
(* (Spec)                                                                  *)
(***************************************************************************)
Extracted == \E i \in DOMAIN stages : stages[i] = "extract"

\* the upstream text is exactly the JSON object obj
ExactObject == Extracted /\ upstream.env.shape = "parts" /\ upstream.env.text = Str(JsonText)

\* C1: a returned result has a boolean 'contaminated', a string 'reason' and
\* a 'confidence' in [0.0, 1.0] that is the parsed confidence when that is in
\* range and the nearest boundary otherwise; an out-of-range confidence never
\* makes extraction fail.
C1_ConfidenceClamped ==
    ExactObject =>
        LET o == upstream.env.obj
            c == o["confidence"]
            r == extraction.result
        IN
        /\ extraction.ok =>
            /\ r["contaminated"].t = "bool"
            /\ r["reason"].t = "str"
            /\ r["confidence"].t = "float"
            /\ r["confidence"].cls = "fin"
            /\ r["confidence"].v >= 0
            /\ r["confidence"].v <= 10
            /\ (c.t \in {"int", "float"} /\ c.cls = "fin") =>
                   r["confidence"].v = (IF c.v < 0 THEN 0 ELSE IF c.v > 10 THEN 10 ELSE c.v)
            /\ (c.t \in {"int", "float"} /\ c.cls \in {"poshuge", "posinf"}) =>
                   r["confidence"].v = 10
            /\ (c.t \in {"int", "float"} /\ c.cls \in {"neghuge", "neginf"}) =>
                   r["confidence"].v = 0
        /\ (o["contaminated"].t = "bool" /\ c.t \in {"int", "float"} /\ o["reason"].t = "str")
               => extraction.ok

\* C2: a result is returned only if all three fields are present and
\* 'contaminated' is a JSON boolean, 'confidence' a JSON number and 'reason'
\* a JSON string; otherwise extraction fails with an error naming the first
\* missing field, or else the first mistyped field, in the order
\* contaminated, confidence, reason.
C2_StrictValidation ==
    ExactObject =>
        LET o == upstream.env.obj
            missing == {i \in DOMAIN required_fields : o[required_fields[i]] = Absent}
            typed == [f \in {"contaminated", "confidence", "reason"} |->
                        CASE f = "contaminated" -> o[f].t = "bool"
                          [] f = "confidence" -> o[f].t \in {"int", "float"}
                          [] OTHER -> o[f].t = "str"]
            mistyped == {i \in DOMAIN required_fields : ~typed[required_fields[i]]}
            valid == missing = {} /\ mistyped = {}
        IN
        /\ extraction.ok => valid
        /\ missing # {} =>
            /\ ~extraction.ok
            /\ extraction.err.kind = "MissingField"
            /\ extraction.err.field =
                   required_fields[CHOOSE i \in missing : \A j \in missing : i <= j]
        /\ (missing = {} /\ mistyped # {}) =>
            /\ ~extraction.ok
            /\ extraction.err.kind \in {"MustBeBoolean", "MustBeNumber", "MustBeString"}
            /\ extraction.err.field =
                   required_fields[CHOOSE i \in mistyped : \A j \in mistyped : i <= j]

\* C3: the body of every HTTP 200 response has exactly the fields
\* contaminated, confidence and reason, whatever other keys the upstream
\* object had.
C3_ExactlyThreeFields ==
    response.status = 200 =>
        \A k \in Keys :
            (response.body[k] # Absent) <=> (k \in {"contaminated", "confidence", "reason"})

\* C4: a finished request has status 400 iff the normalized image is empty,
\* 200 iff the image is non-empty and both the upstream call and the
\* extraction succeeded, and 500 in every other case.
C4_OutcomeTable ==
    pc = "done" =>
        LET empty == base64_image = <<>>
            success == ~empty /\ upstream.ok /\ Extracted /\ extraction.ok
        IN
        /\ response.status \in {200, 400, 500}
        /\ (response.status = 400) <=> empty
        /\ (response.status = 200) <=> success
        /\ (response.status = 500) <=> (~empty /\ ~success)

\* C5: the stages run in the order normalize, call, extract, respond, each at
\* most once; the upstream service is called at most once and never for an
\* empty image; extraction is attempted only after a successful upstream
\* call; a response is set exactly when the request is finished, and a
\* finished request takes no further step.
C5_StagesInOrder ==
    /\ calls <= 1
    /\ Len(stages) <= 4
    /\ stages = SubSeq(<<"normalize", "call", "extract", "respond">>, 1, Len(stages))
    /\ calls = Cardinality({i \in DOMAIN stages : stages[i] = "call"})
    /\ (stages # <<>> /\ base64_image = <<>>) => (calls = 0 /\ pc = "done")
    /\ Extracted => (upstream.ok /\ calls = 1)
    /\ (Len(stages) = 4) => (extraction.ok /\ pc = "done")
    /\ (response.status # 0) <=> (pc = "done")
    /\ (pc = "done") => ~ENABLED Next

\* a request that went through all four stages, and sent one upstream request
C5_Witness ==
    /\ pc = "done"
    /\ stages = <<"normalize", "call", "extract", "respond">>
    /\ calls = 1
    /\ response.status = 200

\* C6: whenever extraction fails the response is HTTP 500 with a detail
\* object holding the validation message and 'raw_response', which is the
\* first min(500, length) characters of parts[0].text when the envelope has
\* that text and the empty string when it has not.
C6_ParseFailureDetail ==
    (pc = "done" /\ Extracted /\ ~extraction.ok) =>
        /\ response.status = 500
        /\ response.kind = "detail_obj"
        /\ response.message = extraction.err
        /\ response.raw.t = "str"
        /\ IF upstream.env.shape = "parts" /\ upstream.env.text.t = "str"
           THEN LET text == upstream.env.text.chars
                    n == IF Len(text) < RAW_LIMIT THEN Len(text) ELSE RAW_LIMIT
                IN  /\ Len(response.raw.chars) = n
                    /\ \A i \in 1..n : response.raw.chars[i] = text[i]
           ELSE response.raw.chars = <<>>

C10_FallbackQuotesText ==
    Extracted =>
        /\ (extraction.fallback # "none") => (extraction.strict = "failed")
        /\ (extraction.fallback \in {"nomatch", "unparsable"}) =>
            /\ ~extraction.ok
            /\ extraction.err.withText
            /\ extraction.err.excerpt = Take(extraction.cleaned, CLEAN_LIMIT)

====
